---- MODULE Spec2Model ----
(***************************************************************************)
(* Model of org_qubes_os_initial_setup/ks/qubes.py: the QubesData          *)
(* configuration record (handle_line / __str__) and the post-install       *)
(* setup pipeline (do_setup and the configure_* steps).                    *)
(*                                                                         *)
(* A Python str is a sequence of pieces.  Everything that the kickstart    *)
(* text protocol reads or writes is spelled character by character (each   *)
(* piece is a one-character string), so strip/split/lower/startswith are   *)
(* computed on characters.  String literals that the pipeline only         *)
(* concatenates into command lines are kept as single pieces.              *)
(***************************************************************************)
EXTENDS Integers, Sequences, FiniteSets, TLC

VARIABLES
    self,               \* the QubesData record
    call,               \* the last handle_line / __str__ call and its outcome
    nlines,             \* number of handle_line calls made
    pc,                 \* position of do_setup
    i,                  \* commands / iterations completed inside the step
    trace,              \* commands handed to run_command, in order
    last_outcome,       \* how the last of these commands ended
    errors,             \* do_setup's local list of (stage, error) pairs
    exc,                \* the exception do_setup ended with, if any
    stage,              \* text last shown by set_stage
    process,            \* group id and umask of the installer process
    template_packages   \* the directory TEMPLATES_RPM_PATH

\* ---------------------------------------------------------------- bounds
MaxLines == 2

\* ------------------------------------------------------- Python helpers
None == [some |-> FALSE, val |-> <<>>]
Some(v) == [some |-> TRUE, val |-> v]

Whitespace == {" ", "\t", "\n", "\r"}

UpperChars == <<"A","B","C","D","E","F","G","H","I","J","K","L","M",
                "N","O","P","Q","R","S","T","U","V","W","X","Y","Z">>
LowerChars == <<"a","b","c","d","e","f","g","h","i","j","k","l","m",
                "n","o","p","q","r","s","t","u","v","w","x","y","z">>

LowerChar(c) ==
    IF \E k \in 1..Len(UpperChars) : UpperChars[k] = c
    THEN LowerChars[CHOOSE k \in 1..Len(UpperChars) : UpperChars[k] = c]
    ELSE c

\* str.lower()
Lower(s) == [k \in 1..Len(s) |-> LowerChar(s[k])]

\* s[a:] for a 1-based start position a
From(s, a) == SubSeq(s, a, Len(s))

\* number of leading / trailing whitespace characters of s
LeadingWs(s) ==
    IF \A k \in 1..Len(s) : s[k] \in Whitespace THEN Len(s)
    ELSE (CHOOSE k \in 1..Len(s) :
              /\ s[k] \notin Whitespace
              /\ \A j \in 1..(k - 1) : s[j] \in Whitespace) - 1

TrailingWs(s) ==
    IF \A k \in 1..Len(s) : s[k] \in Whitespace THEN Len(s)
    ELSE Len(s) - (CHOOSE k \in 1..Len(s) :
                       /\ s[k] \notin Whitespace
                       /\ \A j \in (k + 1)..Len(s) : s[j] \in Whitespace)

\* str.strip()
Strip(s) ==
    LET a == LeadingWs(s)
    IN  IF a = Len(s) THEN <<>>
        ELSE SubSeq(s, a + 1, Len(s) - TrailingWs(s))

\* length of the leading run of non-whitespace characters of s
WordLen(s) ==
    IF \A k \in 1..Len(s) : s[k] \notin Whitespace THEN Len(s)
    ELSE (CHOOSE k \in 1..Len(s) :
              /\ s[k] \in Whitespace
              /\ \A j \in 1..(k - 1) : s[j] \notin Whitespace) - 1

\* str.split(maxsplit=1): split on runs of whitespace, at most one split;
\* the remainder keeps its own trailing whitespace
SplitMax1(s) ==
    LET t == From(s, LeadingWs(s) + 1)
        w == WordLen(t)
        u == From(t, w + 1)
        r == From(u, LeadingWs(u) + 1)
    IN  IF t = <<>> THEN <<>>
        ELSE IF r = <<>> THEN <<SubSeq(t, 1, w)>>
        ELSE <<SubSeq(t, 1, w), r>>

\* position of the m-th occurrence of character c in s
Find(s, c, m) ==
    CHOOSE k \in 1..Len(s) :
        /\ s[k] = c
        /\ Cardinality({j \in 1..(k - 1) : s[j] = c}) = m - 1

\* str.split(c) for a one-character separator c
Split(s, c) ==
    LET n == Cardinality({k \in 1..Len(s) : s[k] = c})
        Start(m) == IF m = 1 THEN 1 ELSE Find(s, c, m - 1) + 1
        End(m) == IF m = n + 1 THEN Len(s) ELSE Find(s, c, m) - 1
    IN  [m \in 1..(n + 1) |-> SubSeq(s, Start(m), End(m))]

\* sep.join(parts)
RECURSIVE Join(_, _)
Join(sep, parts) ==
    IF parts = <<>> THEN <<>>
    ELSE IF Len(parts) = 1 THEN parts[1]
    ELSE parts[1] \o sep \o Join(sep, Tail(parts))

\* str.startswith(prefix)
Startswith(s, prefix) ==
    Len(s) >= Len(prefix) /\ SubSeq(s, 1, Len(prefix)) = prefix

\* ------------------------------------------------------------ spellings
\* The option keys of the text protocol, character by character.
Spell == [
    system_vms |-> <<"s","y","s","t","e","m","_","v","m","s">>,
    disp_firewallvm_and_usbvm |-> <<"d","i","s","p","_","f","i","r","e","w","a","l","l","v","m","_","a","n","d","_","u","s","b","v","m">>,
    disp_netvm |-> <<"d","i","s","p","_","n","e","t","v","m">>,
    default_vms |-> <<"d","e","f","a","u","l","t","_","v","m","s">>,
    whonix_vms |-> <<"w","h","o","n","i","x","_","v","m","s">>,
    whonix_default |-> <<"w","h","o","n","i","x","_","d","e","f","a","u","l","t">>,
    usbvm |-> <<"u","s","b","v","m">>,
    usbvm_with_netvm |-> <<"u","s","b","v","m","_","w","i","t","h","_","n","e","t","v","m">>,
    skip |-> <<"s","k","i","p">>,
    default_template |-> <<"d","e","f","a","u","l","t","_","t","e","m","p","l","a","t","e">>,
    templates_to_install |-> <<"t","e","m","p","l","a","t","e","s","_","t","o","_","i","n","s","t","a","l","l">>,
    lvm_pool |-> <<"l","v","m","_","p","o","o","l">>]

s_true == <<"t","r","u","e">>
s_false == <<"f","a","l","s","e">>
s_True == <<"T","r","u","e">>
s_False == <<"F","a","l","s","e">>
s_None == <<"N","o","n","e">>
s_fedora == <<"f","e","d","o","r","a">>
s_debian == <<"d","e","b","i","a","n">>
s_whonix == <<"w","h","o","n","i","x">>
s_whonix_gw == <<"w","h","o","n","i","x","-","g","w">>
s_whonix_ws == <<"w","h","o","n","i","x","-","w","s">>
s_foo == <<"f","o","o">>
s_bar == <<"b","a","r">>
s_bogus == <<"b","o","g","u","s">>
s_qubes_dom0 == <<"q","u","b","e","s","_","d","o","m","0">>
s_vm_pool == <<"v","m","-","p","o","o","l">>

\* ------------------------------------------------- Template Inventory
\* The staging directory is a function from the template names that have a
\* package file qubes-template-<name>-<version>-*.rpm to that version.
TEMPLATES_RPM_PATH == <<"/var/lib/qubes/template-packages/">>

get_template_rpm(dir, template) ==
    IF dir.some /\ template \in DOMAIN dir.val
    THEN Some(TEMPLATES_RPM_PATH \o <<"qubes-template-">> \o template
              \o <<"-">> \o dir.val[template] \o <<"-1.noarch.rpm">>)
    ELSE None

is_template_rpm_available(dir, template) == get_template_rpm(dir, template).some

get_template_version(dir, template) ==
    IF get_template_rpm(dir, template).some THEN Some(dir.val[template]) ELSE None

\* ------------------------------------------------------- QubesData
bool_options == <<"system_vms", "disp_firewallvm_and_usbvm", "disp_netvm",
                  "default_vms", "whonix_vms", "whonix_default", "usbvm",
                  "usbvm_with_netvm", "skip">>

BoolOptionSet == {bool_options[k] : k \in 1..Len(bool_options)}

\* f extended by key |-> value (dict item assignment)
DictSet(f, key, value) ==
    [k \in DOMAIN f \cup {key} |-> IF k = key THEN value ELSE f[k]]

EmptyDict == [k \in {} |-> <<>>]

\* QubesData.__init__: dir is the staging directory, usbvm_available and
\* tpool are the results of the device probe and of get_default_tpool().
QubesData(name, dir, usbvm_available, tpool) ==
    LET fedora_available == is_template_rpm_available(dir, s_fedora)
        debian_available == is_template_rpm_available(dir, s_debian)
        whonix_available == /\ is_template_rpm_available(dir, s_whonix_gw)
                            /\ is_template_rpm_available(dir, s_whonix_ws)
        v0 == EmptyDict
        v1 == IF fedora_available
              THEN DictSet(v0, s_fedora, get_template_version(dir, s_fedora).val)
              ELSE v0
        v2 == IF debian_available
              THEN DictSet(v1, s_debian, get_template_version(dir, s_debian).val)
              ELSE v1
        v3 == IF whonix_available
              THEN DictSet(v2, s_whonix, get_template_version(dir, s_whonix_ws).val)
              ELSE v2
    IN  [name |-> name,
         whonix_available |-> whonix_available,
         templates_versions |-> v3,
         system_vms |-> TRUE,
         disp_firewallvm_and_usbvm |-> TRUE,
         disp_netvm |-> FALSE,
         default_vms |-> TRUE,
         whonix_vms |-> whonix_available,
         whonix_default |-> FALSE,
         usbvm |-> usbvm_available,
         usbvm_with_netvm |-> FALSE,
         vg_tpool |-> tpool,
         skip |-> FALSE,
         default_template |-> None,
         templates_to_install |-> <<s_fedora, s_debian, s_whonix_gw, s_whonix_ws>>,
         qubes_user |-> None,
         seen |-> FALSE]

\* The outcome of a call: it returns (raised = FALSE) or raises `error`.
Return(obj) == [raised |-> FALSE, error |-> <<>>, self |-> obj]
Raise(obj, error) == [raised |-> TRUE, error |-> error, self |-> obj]

\* the value compared without lower()
handle_bool_option_case_sensitive(obj, line, param, value) ==
    IF value \notin {s_true, s_false}
    THEN Raise(obj, <<"KickstartValueError",
                      "invalid value for bool property: ">> \o line)
    ELSE LET o == CHOOSE o \in BoolOptionSet : Spell[o] = param
             bool_value == (value = s_true)
         IN  Return([[obj EXCEPT ![o] = bool_value] EXCEPT !.seen = TRUE])

\* setattr ahead of the test of the value
handle_bool_option_set_first(obj, line, param, value) ==
    LET o == CHOOSE o \in BoolOptionSet : Spell[o] = param
        bool_value == (Lower(value) = s_true)
        updated == [obj EXCEPT ![o] = bool_value]
    IN  IF Lower(value) \notin {s_true, s_false}
        THEN Raise(updated, <<"KickstartValueError",
                              "invalid value for bool property: ">> \o line)
        ELSE Return([updated EXCEPT !.seen = TRUE])

\* handle_line, the branch of a boolean option
handle_bool_option(obj, line, param, value) ==
    IF Lower(value) \notin {s_true, s_false}
    THEN Raise(obj, <<"KickstartValueError",
                      "invalid value for bool property: ">> \o line)
    ELSE LET o == CHOOSE o \in BoolOptionSet : Spell[o] = param
             bool_value == (Lower(value) = s_true)
         IN  Return([[obj EXCEPT ![o] = bool_value] EXCEPT !.seen = TRUE])

\* len(parsed) < 2 in place of len(parsed) != 2
handle_lvm_pool_at_least_two(obj, line, value) ==
    LET parsed == Split(value, "/")
    IN  IF Len(parsed) < 2
        THEN Raise(obj, <<"KickstartValueError",
                          "invalid value for lvm_pool: ">> \o line)
        ELSE Return([obj EXCEPT !.vg_tpool = Some(<<parsed[1], parsed[2]>>),
                                !.seen = TRUE])

\* handle_line, the branch of lvm_pool
handle_lvm_pool(obj, line, value) ==
    LET parsed == Split(value, "/")
    IN  IF Len(parsed) # 2
        THEN Raise(obj, <<"KickstartValueError",
                          "invalid value for lvm_pool: ">> \o line)
        ELSE Return([obj EXCEPT !.vg_tpool = Some(<<parsed[1], parsed[2]>>),
                                !.seen = TRUE])

\* QubesData.handle_line
handle_line(obj, line) ==
    LET parts == SplitMax1(Strip(line))
    IN  IF Len(parts) # 2
        THEN Raise(obj, <<"KickstartValueError", "invalid line: ">> \o line)
        ELSE
        LET param == parts[1]
            value == parts[2]
        IN  IF \E o \in BoolOptionSet : Spell[o] = param
            THEN handle_bool_option(obj, line, param, value)
            ELSE IF param = Spell.default_template
            THEN Return([obj EXCEPT !.default_template = Some(value),
                                    !.seen = TRUE])
            ELSE IF param = Spell.templates_to_install
            THEN Return([obj EXCEPT !.templates_to_install = Split(value, " "),
                                    !.seen = TRUE])
            ELSE IF param = Spell.lvm_pool
            THEN handle_lvm_pool(obj, line, value)
            ELSE Raise(obj, <<"KickstartValueError", "invalid parameter: ">>
                              \o param)

\* "{!s}".format(b) for a bool, "{}".format(x) for an optional str
StrBool(b) == IF b THEN s_True ELSE s_False
StrOpt(x) == IF x.some THEN x.val ELSE s_None

\* QubesData.__str__: the section as one string, every line ended by "\n"
__str__(obj) ==
    LET bools == [k \in 1..Len(bool_options) |->
                    Spell[bool_options[k]] \o <<" ">>
                        \o StrBool(obj[bool_options[k]]) \o <<"\n">>]
        RECURSIVE Concat(_)
        Concat(ss) == IF ss = <<>> THEN <<>> ELSE Head(ss) \o Concat(Tail(ss))
    IN  <<"%addon ">> \o obj.name \o <<"\n">>
        \o Concat(bools)
        \o Spell.default_template \o <<" ">> \o StrOpt(obj.default_template)
        \o <<"\n">>
        \o Spell.templates_to_install \o <<" ">>
        \o Join(<<" ">>, obj.templates_to_install) \o <<"\n">>
        \o (IF obj.vg_tpool.some
            THEN Spell.lvm_pool \o <<" ">> \o obj.vg_tpool.val[1] \o <<"/">>
                    \o obj.vg_tpool.val[2] \o <<"\n">>
            ELSE <<>>)
        \o <<"%end", "\n">>

\* ------------------------------------------------------ environment
\* What the probes of __init__ find on the machine.
Environments ==
    { [dir |-> Some([t \in {s_fedora, s_debian, s_whonix_gw, s_whonix_ws} |->
                       IF t = s_fedora THEN <<"3","3">>
                       ELSE IF t = s_debian THEN <<"1","0">> ELSE <<"1","5">>]),
       usbvm_available |-> TRUE,
       tpool |-> Some(<<s_qubes_dom0, s_vm_pool>>)],
      [dir |-> Some([t \in {s_fedora, s_debian} |->
                       IF t = s_fedora THEN <<"3","3">> ELSE <<"1","0">>]),
       usbvm_available |-> FALSE,
       tpool |-> None] }

\* members of the group 'qubes' (grp.getgrnam('qubes').gr_mem)
GroupMembers == { <<>>, << <<"user">> >>, << <<"user">>, <<"admin">> >> }

\* gr_gid of the group 'qubes' and the mask 0o0007 handed to os.umask
QUBES_GID == 98
SETUP_UMASK == 7

\* group id and umask of the installer process when execute() is called
InstallerProcess == [gid |-> 0, umask |-> 18]

\* /var/lib/qubes/vm-kernels: directory names with their LooseVersion
\* components
vm_kernels ==
    { [name |-> <<"4.19.0-1">>, version |-> <<4, 19, 0, 1>>],
      [name |-> <<"4.19.0-2">>, version |-> <<4, 19, 0, 2>>],
      [name |-> <<"4.18.0-5">>, version |-> <<4, 18, 0, 5>>] }

\* list comparison of two component lists
RECURSIVE VersionLess(_, _)
VersionLess(a, b) ==
    IF a = <<>> THEN b # <<>>
    ELSE IF b = <<>> THEN FALSE
    ELSE IF Head(a) # Head(b) THEN Head(a) < Head(b)
    ELSE VersionLess(Tail(a), Tail(b))

\* ------------------------------------------- the text protocol's inputs
AddonName == <<"org_qubes_os_initial_setup">>

\* every spelling of "true" / "false" in upper and lower case letters
TrueSpellings ==
    { <<a, b, c, d>> : a \in {"t","T"}, b \in {"r","R"}, c \in {"u","U"},
                       d \in {"e","E"} }

FalseSpellings ==
    { <<a, b, c, d, e>> : a \in {"f","F"}, b \in {"a","A"}, c \in {"l","L"},
                          d \in {"s","S"}, e \in {"e","E"} }

\* values that spell neither
NotBoolValues ==
    { <<"y","e","s">>, <<"t","r","u">>,
      <<"t","r","u","e"," ","f","a","l","s","e">>, s_None }

\* the spellings tried with every boolean key (all of them are tried with
\* the last key)
CommonSpellings ==
    { s_true, s_false, s_True, s_False, <<"T","R","U","E">>,
      <<"F","A","L","S","E">> }

KeyValue(key, value) == key \o <<" ">> \o value

BoolLines ==
    { KeyValue(Spell[o], v) : o \in BoolOptionSet, v \in CommonSpellings }
    \cup { KeyValue(Spell[bool_options[Len(bool_options)]], v) :
             v \in TrueSpellings \cup FalseSpellings }

BadBoolLines ==
    { KeyValue(Spell[o], v) : o \in BoolOptionSet, v \in NotBoolValues }

TemplateNames == {s_fedora, s_debian, s_None}

TemplateListValues ==
    { <<s_fedora>>, <<s_fedora, s_debian>>, <<s_whonix_gw, s_whonix_ws>>,
      <<s_fedora, <<>>, s_debian>> }

LvmGroups == {s_foo, s_qubes_dom0, <<>>}
LvmPools == {s_bar, s_vm_pool, <<>>}

\* values of lvm_pool with no slash and with more than one slash
BadLvmValues ==
    { s_foo, s_vm_pool, <<"a","/","b","/","c">>, <<"/","/">>,
      s_foo \o <<"/">> \o s_bar \o <<"/">> }

LvmLines ==
    { KeyValue(Spell.lvm_pool, g \o <<"/">> \o p) :
        g \in LvmGroups, p \in LvmPools }

BadLvmLines == { KeyValue(Spell.lvm_pool, v) : v \in BadLvmValues }

\* keys that are no option: unknown words and options in the wrong case
UnknownKeys == { s_bogus, <<"S","k","i","p">>, <<"l","v","m">>,
                 <<"%","e","n","d">> }

UnknownKeyLines ==
    { KeyValue(k, v) : k \in UnknownKeys, v \in {s_true, s_foo \o <<"/">> \o s_bar} }

\* lines with no value part
NoValueLines ==
    { <<>>, <<" ", "\n">>, Spell.skip, Spell.lvm_pool \o <<" ">>,
      Spell.default_template \o <<"\n">>,
      Spell.templates_to_install \o <<" ", "\n">>, s_bogus }

\* lines with other whitespace around the key and the value
PaddedLines ==
    { <<" ", " ">> \o Spell.skip \o <<"\t">> \o s_True \o <<"\n">>,
      Spell.usbvm \o <<" ", " ">> \o s_false \o <<" ">>,
      Spell.lvm_pool \o <<"\t">> \o s_foo \o <<"/">> \o s_bar \o <<"\n">>,
      Spell.default_template \o <<" ">> \o s_debian \o <<"\r", "\n">> }

BadLines == BadBoolLines \cup BadLvmLines \cup UnknownKeyLines \cup NoValueLines

Lines ==
    BoolLines
    \cup { KeyValue(Spell.default_template, v) : v \in TemplateNames }
    \cup { KeyValue(Spell.templates_to_install, Join(<<" ">>, l)) :
             l \in TemplateListValues }
    \cup LvmLines
    \cup PaddedLines
    \cup BadLines

\* ------------------------------------------------ the record's history
NoCall == [op |-> "none", arg |-> <<>>, raised |-> FALSE, value |-> <<>>]

pipeline_vars == <<pc, i, trace, last_outcome, errors, exc, stage, process,
                   template_packages>>

vars == <<self, call, nlines, pc, i, trace, last_outcome, errors, exc, stage,
          process, template_packages>>

InitParse ==
    /\ \E env \in Environments :
         /\ self = QubesData(AddonName, env.dir, env.usbvm_available, env.tpool)
         /\ template_packages = env.dir
    /\ call = NoCall
    /\ nlines = 0
    /\ pc = "idle"
    /\ i = 0
    /\ trace = <<>>
    /\ last_outcome = "none"
    /\ errors = <<>>
    /\ exc = None
    /\ stage = <<>>
    /\ process = InstallerProcess

\* one line of the addon section is handed to handle_line
HandleLine ==
    /\ nlines < MaxLines
    /\ \E line \in Lines :
         LET r == handle_line(self, line)
         IN  /\ self' = r.self
             /\ call' = [op |-> "handle_line", arg |-> line,
                         raised |-> r.raised, value |-> r.error]
    /\ nlines' = nlines + 1
    /\ UNCHANGED pipeline_vars

\* the record is serialized
Str ==
    /\ call' = [op |-> "__str__", arg |-> <<>>, raised |-> FALSE,
                value |-> __str__(self)]
    /\ UNCHANGED <<self, nlines>>
    /\ UNCHANGED pipeline_vars

NextParse == HandleLine \/ Str

SpecParse == InitParse /\ [][NextParse]_vars

\* outcomes of one external command: exit status 0, non-zero exit status,
\* or an exception while starting it / reading its output
Outcomes == {"ok", "nonzero", "exception"}

\* ---------------------------------------------------------- exceptions
Exception(type, msg) == Some([type |-> type, msg |-> msg])

\* str(command) for a list of strings
CmdRepr(command) ==
    <<"[">> \o Join(<<", ">>, [k \in 1..Len(command) |->
                                  <<"'">> \o command[k] \o <<"'">>])
    \o <<"]">>

\* a literal argument vector
Lit(words) == [k \in 1..Len(words) |-> <<words[k]>>]

\* the exit status never looked at
run_command_status_ignored(command, ignore_failure, outcome) ==
    IF outcome = "exception"
    THEN Exception("Exception", <<"str(e)">>)
    ELSE None

\* QubesData.run_command: the exception it raises, None if it returns
run_command(command, ignore_failure, outcome) ==
    IF outcome = "exception"
    THEN Exception("Exception", <<"str(e)">>)
    ELSE IF ~ignore_failure /\ outcome = "nonzero"
    THEN Exception("Exception",
                   CmdRepr(command) \o <<" failed:\nstdout: \"", "stdout",
                                         "\"\nstderr: \"", "stderr", "\"">>)
    ELSE None

\* ------------------------------------------------- steps of do_setup
\* configure_dom0 called ahead of install_templates
do_setup_calls_dom0_first ==
    <<"drop_privileges", "configure_default_kernel", "configure_default_pool",
      "configure_dom0", "install_templates", "configure_default_template",
      "configure_qubes", "configure_network", "start_usbvm",
      "configure_default_dvm", "report_errors">>

\* the steps of do_setup below the skip test, in the order of its statements
do_setup_calls ==
    <<"drop_privileges", "configure_default_kernel", "configure_default_pool",
      "install_templates", "configure_dom0", "configure_default_template",
      "configure_qubes", "configure_network", "start_usbvm",
      "configure_default_dvm", "report_errors">>

\* usbvm_with_netvm left out of the test
Called_usbvm_only(step, obj) ==
    IF step = "configure_network" THEN obj.system_vms
    ELSE IF step = "start_usbvm" THEN obj.usbvm
    ELSE TRUE

\* the `if` that guards a call
Called(step, obj) ==
    IF step = "configure_network" THEN obj.system_vms
    ELSE IF step = "start_usbvm" THEN obj.usbvm /\ ~obj.usbvm_with_netvm
    ELSE TRUE

\* the first statement at or below position k whose guard holds
RECURSIVE CallFrom(_, _)
CallFrom(k, obj) ==
    IF k > Len(do_setup_calls) THEN "done"
    ELSE IF Called(do_setup_calls[k], obj) THEN do_setup_calls[k]
    ELSE CallFrom(k + 1, obj)

\* where do_setup goes when `step` has returned
After(step, obj) ==
    CallFrom(1 + CHOOSE k \in 1..Len(do_setup_calls) : do_setup_calls[k] = step,
             obj)

\* do_setup ends by raising e
Abort(e) ==
    /\ pc' = "raised"
    /\ exc' = e
    /\ i' = 0

\* One command of a step whose argument vectors cmds are known when the
\* step starts: the command is run; a failure ends do_setup with the
\* exception e of run_command, or with the one raised by the except clause
\* around the command (handler, None where there is no except clause); after
\* the last command do_setup goes on at next.
RunStep(cmds, ignore_failure, next, handler) ==
    IF i >= Len(cmds)
    THEN /\ pc' = next
         /\ i' = 0
         /\ UNCHANGED <<trace, last_outcome, exc>>
    ELSE \E outcome \in Outcomes :
           LET e == run_command(cmds[i + 1], ignore_failure, outcome)
           IN  /\ trace' = Append(trace, cmds[i + 1])
               /\ last_outcome' = outcome
               /\ IF e.some THEN Abort(IF handler.some THEN handler ELSE e)
                  ELSE IF i + 1 = Len(cmds)
                       THEN pc' = next /\ i' = 0 /\ UNCHANGED exc
                       ELSE pc' = pc /\ i' = i + 1 /\ UNCHANGED exc

\* QubesData.execute: both branches call do_setup once
Execute ==
    /\ pc = "idle"
    /\ pc' = "do_setup"
    /\ call' = NoCall
    /\ UNCHANGED <<self, nlines, i, trace, last_outcome, errors, exc, stage,
                   process, template_packages>>

\* skip tested ahead of the group's members
DoSetup_skip_first ==
    /\ pc = "do_setup"
    /\ \E qubes_users \in GroupMembers :
         IF self.skip
         THEN /\ pc' = "done"
              /\ UNCHANGED <<self, errors, i, exc>>
         ELSE IF Len(qubes_users) < 1
         THEN /\ Abort(Exception("Exception",
                  <<"You must create a user account to create default VMs.">>))
              /\ UNCHANGED <<self, errors>>
         ELSE /\ self' = [self EXCEPT !.qubes_user = Some(qubes_users[1])]
              /\ pc' = CallFrom(1, self) /\ errors' = <<>>
              /\ UNCHANGED <<i, exc>>
    /\ UNCHANGED <<call, nlines, trace, last_outcome, stage, process,
                   template_packages>>

\* do_setup without the skip test
DoSetup_no_skip_test ==
    /\ pc = "do_setup"
    /\ \E qubes_users \in GroupMembers :
         IF Len(qubes_users) < 1
         THEN /\ Abort(Exception("Exception",
                  <<"You must create a user account to create default VMs.">>))
              /\ UNCHANGED <<self, errors>>
         ELSE /\ self' = [self EXCEPT !.qubes_user = Some(qubes_users[1])]
              /\ pc' = CallFrom(1, self) /\ errors' = <<>>
              /\ UNCHANGED <<i, exc>>
    /\ UNCHANGED <<call, nlines, trace, last_outcome, stage, process,
                   template_packages>>

\* do_setup up to the skip test
DoSetup ==
    /\ pc = "do_setup"
    /\ \E qubes_users \in GroupMembers :
         IF Len(qubes_users) < 1
         THEN /\ Abort(Exception("Exception",
                  <<"You must create a user account to create default VMs.">>))
              /\ UNCHANGED <<self, errors>>
         ELSE /\ self' = [self EXCEPT !.qubes_user = Some(qubes_users[1])]
              /\ IF self.skip
                 THEN pc' = "done" /\ UNCHANGED errors
                 ELSE pc' = CallFrom(1, self) /\ errors' = <<>>
              /\ UNCHANGED <<i, exc>>
    /\ UNCHANGED <<call, nlines, trace, last_outcome, stage, process,
                   template_packages>>

\* os.setgid(qubes_gid); os.umask(0o0007)
DropPrivileges ==
    /\ pc = "drop_privileges"
    /\ process' = [gid |-> QUBES_GID, umask |-> SETUP_UMASK]
    /\ pc' = After("drop_privileges", self)
    /\ UNCHANGED <<self, call, nlines, i, trace, last_outcome, errors, exc,
                   stage, template_packages>>

default_kernel ==
    (CHOOSE k \in vm_kernels :
        \A o \in vm_kernels : ~VersionLess(k.version, o.version)).name

KernelCommands ==
    << <<<<"/usr/bin/qubes-prefs">>, <<"default-kernel">>, default_kernel>> >>

configure_default_kernel ==
    /\ pc = "configure_default_kernel"
    /\ stage' = <<"Setting up default kernel">>
    /\ RunStep(KernelCommands, FALSE,
               After("configure_default_kernel", self), None)
    /\ UNCHANGED <<self, call, nlines, errors, process, template_packages>>

PoolCommands(obj) ==
    IF obj.vg_tpool.some
    THEN LET volume_group == obj.vg_tpool.val[1]
             thin_pool == obj.vg_tpool.val[2]
         IN  << <<<<"/usr/bin/qvm-pool">>, <<"--add">>, thin_pool,
                  <<"lvm_thin">>, <<"-o">>,
                  <<"volume_group=">> \o volume_group
                     \o <<",thin_pool=">> \o thin_pool
                     \o <<",revisions_to_keep=2">> >>,
                <<<<"/usr/bin/qubes-prefs">>, <<"default-pool">>, thin_pool>> >>
    ELSE <<>>

configure_default_pool ==
    /\ pc = "configure_default_pool"
    /\ stage' = <<"Setting up default pool">>
    /\ RunStep(PoolCommands(self), FALSE,
               After("configure_default_pool", self), None)
    /\ UNCHANGED <<self, call, nlines, errors, process, template_packages>>

\* shutil.rmtree indented into the loop body
install_templates_rmtree_in_loop ==
    /\ pc = "install_templates"
    /\ IF i < Len(self.templates_to_install)
       THEN LET template == self.templates_to_install[i + 1]
                key == IF Startswith(template, s_whonix)
                       THEN s_whonix ELSE template
            IN  IF key \notin DOMAIN self.templates_versions
                THEN /\ Abort(Exception("KeyError", <<"'">> \o key \o <<"'">>))
                     /\ UNCHANGED <<trace, last_outcome, stage,
                                    template_packages>>
                ELSE
                LET template_version == self.templates_versions[key]
                    template_name == template \o <<"-">> \o template_version
                    rpm == get_template_rpm(template_packages, template)
                    command == <<<<"/usr/bin/rpm">>, <<"-i">>,
                                 IF rpm.some THEN rpm.val ELSE <<"None">> >>
                IN  /\ stage' = <<"Installing TemplateVM ">> \o template_name
                    /\ \E outcome \in
                            IF rpm.some THEN Outcomes ELSE {"exception"} :
                         LET e == run_command(command, FALSE, outcome)
                         IN  /\ trace' = Append(trace, command)
                             /\ last_outcome' = outcome
                             /\ IF e.some
                                THEN Abort(e) /\ UNCHANGED template_packages
                                ELSE /\ pc' = pc /\ i' = i + 1 /\ UNCHANGED exc
                                     /\ template_packages' = None
       ELSE /\ pc' = After("install_templates", self)
            /\ i' = 0
            /\ UNCHANGED <<trace, last_outcome, stage, exc, template_packages>>
    /\ UNCHANGED <<self, call, nlines, errors, process>>

\* the version looked up with dict.get in place of [ ]
install_templates_version_optional ==
    /\ pc = "install_templates"
    /\ IF i < Len(self.templates_to_install)
       THEN LET template == self.templates_to_install[i + 1]
                key == IF Startswith(template, s_whonix)
                       THEN s_whonix ELSE template
                template_version == IF key \in DOMAIN self.templates_versions
                                    THEN self.templates_versions[key]
                                    ELSE s_None
                template_name == template \o <<"-">> \o template_version
                rpm == get_template_rpm(template_packages, template)
                command == <<<<"/usr/bin/rpm">>, <<"-i">>,
                             IF rpm.some THEN rpm.val ELSE <<"None">> >>
            IN  /\ stage' = <<"Installing TemplateVM ">> \o template_name
                /\ \E outcome \in
                        IF rpm.some THEN Outcomes ELSE {"exception"} :
                     LET e == run_command(command, FALSE, outcome)
                     IN  /\ trace' = Append(trace, command)
                         /\ last_outcome' = outcome
                         /\ IF e.some THEN Abort(e)
                            ELSE pc' = pc /\ i' = i + 1 /\ UNCHANGED exc
                /\ UNCHANGED template_packages
       ELSE /\ IF template_packages.some
               THEN /\ template_packages' = None
                    /\ pc' = After("install_templates", self)
                    /\ i' = 0
                    /\ UNCHANGED exc
               ELSE /\ Abort(Exception("FileNotFoundError", TEMPLATES_RPM_PATH))
                    /\ UNCHANGED template_packages
            /\ UNCHANGED <<trace, last_outcome, stage>>
    /\ UNCHANGED <<self, call, nlines, errors, process>>

install_templates ==
    /\ pc = "install_templates"
    /\ IF i < Len(self.templates_to_install)
       THEN LET template == self.templates_to_install[i + 1]
                key == IF Startswith(template, s_whonix)
                       THEN s_whonix ELSE template
            IN  IF key \notin DOMAIN self.templates_versions
                THEN /\ Abort(Exception("KeyError", <<"'">> \o key \o <<"'">>))
                     /\ UNCHANGED <<trace, last_outcome, stage,
                                    template_packages>>
                ELSE
                LET template_version == self.templates_versions[key]
                    template_name == template \o <<"-">> \o template_version
                    rpm == get_template_rpm(template_packages, template)
                    command == <<<<"/usr/bin/rpm">>, <<"-i">>,
                                 IF rpm.some THEN rpm.val ELSE <<"None">> >>
                IN  /\ stage' = <<"Installing TemplateVM ">> \o template_name
                    /\ \E outcome \in
                            IF rpm.some THEN Outcomes ELSE {"exception"} :
                         LET e == run_command(command, FALSE, outcome)
                         IN  /\ trace' = Append(trace, command)
                             /\ last_outcome' = outcome
                             /\ IF e.some THEN Abort(e)
                                ELSE pc' = pc /\ i' = i + 1 /\ UNCHANGED exc
                    /\ UNCHANGED template_packages
       ELSE \* shutil.rmtree(TEMPLATES_RPM_PATH)
            /\ IF template_packages.some
               THEN /\ template_packages' = None
                    /\ pc' = After("install_templates", self)
                    /\ i' = 0
                    /\ UNCHANGED exc
               ELSE /\ Abort(Exception("FileNotFoundError", TEMPLATES_RPM_PATH))
                    /\ UNCHANGED template_packages
            /\ UNCHANGED <<trace, last_outcome, stage>>
    /\ UNCHANGED <<self, call, nlines, errors, process>>

dom0_services == <<"rdisc", "kdump", "libvirt-guests", "salt-minion">>

Dom0Commands ==
    [k \in 1..(2 * Len(dom0_services)) |->
        <<<<"systemctl">>,
          IF k % 2 = 1 THEN <<"disable">> ELSE <<"stop">>,
          <<dom0_services[(k + 1) \div 2]>> \o <<".service">> >>]

\* ignore_failure left at its default
configure_dom0_failures_fatal ==
    /\ pc = "configure_dom0"
    /\ stage' = <<"Setting up administration VM (dom0)">>
    /\ RunStep(Dom0Commands, FALSE, After("configure_dom0", self), None)
    /\ UNCHANGED <<self, call, nlines, errors, process, template_packages>>

configure_dom0 ==
    /\ pc = "configure_dom0"
    /\ stage' = <<"Setting up administration VM (dom0)">>
    /\ RunStep(Dom0Commands, TRUE, After("configure_dom0", self), None)
    /\ UNCHANGED <<self, call, nlines, errors, process, template_packages>>

DefaultTemplateCommands(name) ==
    << <<<<"/usr/bin/qubes-prefs">>, <<"default-template">>, name>> >>

configure_default_template ==
    /\ pc = "configure_default_template"
    /\ stage' = <<"Setting default template">>
    /\ IF self.default_template.some /\ self.default_template.val # <<>>
       THEN LET dt == self.default_template.val
            IN  IF dt \notin DOMAIN self.templates_versions
                THEN /\ Abort(Exception("KeyError", <<"'">> \o dt \o <<"'">>))
                     /\ UNCHANGED <<self, trace, last_outcome>>
                ELSE LET name == dt \o <<"-">> \o self.templates_versions[dt]
                     IN  /\ self' = [self EXCEPT !.default_template = Some(name)]
                         /\ RunStep(DefaultTemplateCommands(name), FALSE,
                                    After("configure_default_template", self),
                                    None)
       ELSE /\ pc' = After("configure_default_template", self)
            /\ UNCHANGED <<self, i, trace, last_outcome, exc>>
    /\ UNCHANGED <<call, nlines, errors, process, template_packages>>

\* the list `states` built by configure_qubes
states(obj) ==
    (IF obj.system_vms
     THEN << <<"qvm.sys-net">>, <<"qvm.sys-firewall">>, <<"qvm.default-dispvm">> >>
     ELSE <<>>)
    \o (IF obj.disp_firewallvm_and_usbvm
        THEN << <<"pillar.", "qvm.disposable-sys-firewall">>,
                <<"pillar.", "qvm.disposable-sys-usb">> >>
        ELSE <<>>)
    \o (IF obj.disp_netvm
        THEN << <<"pillar.", "qvm.disposable-sys-net">> >> ELSE <<>>)
    \o (IF obj.default_vms
        THEN << <<"qvm.personal">>, <<"qvm.work">>, <<"qvm.untrusted">>,
                <<"qvm.vault">> >>
        ELSE <<>>)
    \o (IF obj.whonix_available /\ obj.whonix_vms
        THEN << <<"qvm.sys-whonix">>, <<"qvm.anon-whonix">> >> ELSE <<>>)
    \o (IF obj.whonix_default
        THEN << <<"qvm.updates-via-whonix">> >> ELSE <<>>)
    \o (IF obj.usbvm THEN << <<"qvm.sys-usb">> >> ELSE <<>>)
    \o (IF obj.usbvm_with_netvm
        THEN << <<"pillar.", "qvm.sys-net-as-usbvm">> >> ELSE <<>>)

IsPillar(state) == Startswith(state, <<"pillar.">>)

\* the prefix left on the name of a pillar state
EnableCommand_keep_prefix(state) ==
    IF IsPillar(state)
    THEN <<<<"qubesctl">>, <<"top.enable">>, state, <<"pillar=True">>>>
    ELSE <<<<"qubesctl">>, <<"top.enable">>, state>>

\* the top.enable command of a state
EnableCommand(state) ==
    IF IsPillar(state)
    THEN <<<<"qubesctl">>, <<"top.enable">>, From(state, 2), <<"pillar=True">>>>
    ELSE <<<<"qubesctl">>, <<"top.enable">>, state>>

DisableCommand(state) == <<<<"qubesctl">>, <<"top.disable">>, state>>

HighstateCommand == Lit(<<"qubesctl", "--all", "state.highstate">>)

\* the commands before the try block and those inside it
QubesSetupCommands(obj) ==
    << Lit(<<"qubesctl", "saltutil.clear_cache">>),
       Lit(<<"qubesctl", "saltutil.sync_all">>) >>
    \o [k \in 1..Len(states(obj)) |-> EnableCommand(states(obj)[k])]

\* the states disabled ahead of the convergence pass
QubesTryCommands_disable_first(obj) ==
    [k \in 1..Len(SelectSeq(states(obj), LAMBDA st : ~IsPillar(st))) |->
          DisableCommand(SelectSeq(states(obj), LAMBDA st : ~IsPillar(st))[k])]
    \o << HighstateCommand >>

QubesTryCommands(obj) ==
    << HighstateCommand >>
    \o [k \in 1..Len(SelectSeq(states(obj), LAMBDA st : ~IsPillar(st))) |->
          DisableCommand(SelectSeq(states(obj), LAMBDA st : ~IsPillar(st))[k])]

Guidance ==
    <<"Qubes initial configuration failed. Login to the system and ",
      "check ", "/var/log/salt/minion", " for details. ",
      "You can retry configuration by calling ",
      "'", "sudo qubesctl --all state.highstate", "' in dom0 (you will get ",
      "detailed state there).">>

\* (the os.rename of /var/log/salt/minion either succeeds or raises an OSError
\* that is passed over; neither outcome touches anything modelled here)
configure_qubes ==
    /\ pc = "configure_qubes"
    /\ stage' = <<"Executing qubes configuration">>
    /\ LET before == QubesSetupCommands(self)
           inside == QubesTryCommands(self)
           cmds == before \o inside
           handler == IF i >= Len(before)
                      THEN Exception("Exception", Guidance) ELSE None
       IN  RunStep(cmds, FALSE, After("configure_qubes", self), handler)
    /\ UNCHANGED <<self, call, nlines, errors, process, template_packages>>

\* updatevm never switched to sys-whonix
NetworkCommands_updatevm_is_netvm(obj) ==
    LET default_netvm == <<"sys-firewall">>
        updatevm == default_netvm
    IN  << Lit(<<"/usr/bin/qvm-prefs", "sys-firewall", "netvm", "sys-net">>),
           <<<<"/usr/bin/qubes-prefs">>, <<"default-netvm">>, default_netvm>>,
           <<<<"/usr/bin/qubes-prefs">>, <<"updatevm">>, updatevm>>,
           Lit(<<"/usr/bin/qubes-prefs", "clockvm", "sys-net">>),
           <<<<"/usr/bin/qvm-start">>, default_netvm>> >>

NetworkCommands(obj) ==
    LET default_netvm == <<"sys-firewall">>
        updatevm == IF obj.whonix_default THEN <<"sys-whonix">> ELSE default_netvm
    IN  << Lit(<<"/usr/bin/qvm-prefs", "sys-firewall", "netvm", "sys-net">>),
           <<<<"/usr/bin/qubes-prefs">>, <<"default-netvm">>, default_netvm>>,
           <<<<"/usr/bin/qubes-prefs">>, <<"updatevm">>, updatevm>>,
           Lit(<<"/usr/bin/qubes-prefs", "clockvm", "sys-net">>),
           <<<<"/usr/bin/qvm-start">>, default_netvm>> >>

configure_network ==
    /\ pc = "configure_network"
    /\ stage' = <<"Setting up networking">>
    /\ RunStep(NetworkCommands(self), FALSE,
               After("configure_network", self), None)
    /\ UNCHANGED <<self, call, nlines, errors, process, template_packages>>

UsbvmCommands ==
    << Lit(<<"systemctl", "start", "qubes-vm@sys-usb.service">>) >>

\* do_setup: the workaround for #1464
start_usbvm ==
    /\ pc = "start_usbvm"
    /\ RunStep(UsbvmCommands, FALSE, After("start_usbvm", self), None)
    /\ UNCHANGED <<self, call, nlines, errors, stage, process,
                   template_packages>>

DvmCommand(default_template) ==
    LET dispvm_name == default_template \o <<"-dvm">>
    IN  <<<<"/usr/bin/qubes-prefs">>, <<"default-dispvm">>, dispvm_name>>

\* the DVM name formatted from default_template, an unset one giving 'None-dvm'
configure_default_dvm_formats_none ==
    /\ pc = "configure_default_dvm"
    /\ stage' = <<"Creating default DisposableVM">>
    /\ LET command == DvmCommand(IF self.default_template.some
                                 THEN self.default_template.val
                                 ELSE <<"None">>)
       IN  \E outcome \in Outcomes :
             LET e == run_command(command, FALSE, outcome)
             IN  /\ trace' = Append(trace, command)
                 /\ last_outcome' = outcome
                 /\ errors' = IF e.some
                              THEN Append(errors,
                                          << <<"Default DVM">>, e.val.msg >>)
                              ELSE errors
    /\ pc' = After("configure_default_dvm", self)
    /\ UNCHANGED <<self, call, nlines, i, exc, process, template_packages>>

\* configure_default_dvm called outside any try
configure_default_dvm_no_try ==
    /\ pc = "configure_default_dvm"
    /\ stage' = <<"Creating default DisposableVM">>
    /\ IF ~self.default_template.some
       THEN /\ Abort(Exception("TypeError",
                  <<"unsupported operand type(s) for +: 'NoneType' and 'str'">>))
            /\ UNCHANGED <<trace, last_outcome>>
       ELSE LET command == DvmCommand(self.default_template.val)
            IN  \E outcome \in Outcomes :
                  LET e == run_command(command, FALSE, outcome)
                  IN  /\ trace' = Append(trace, command)
                      /\ last_outcome' = outcome
                      /\ IF e.some THEN Abort(e)
                         ELSE /\ pc' = After("configure_default_dvm", self)
                              /\ UNCHANGED <<i, exc>>
    /\ UNCHANGED <<self, call, nlines, errors, process, template_packages>>

\* do_setup: try: configure_default_dvm() except Exception: errors.append(..)
configure_default_dvm ==
    /\ pc = "configure_default_dvm"
    /\ stage' = <<"Creating default DisposableVM">>
    /\ IF ~self.default_template.some
       THEN /\ errors' = Append(errors, << <<"Default DVM">>,
                  <<"unsupported operand type(s) for +: 'NoneType' and 'str'">> >>)
            /\ UNCHANGED <<trace, last_outcome>>
       ELSE LET command == DvmCommand(self.default_template.val)
            IN  \E outcome \in Outcomes :
                  LET e == run_command(command, FALSE, outcome)
                  IN  /\ trace' = Append(trace, command)
                      /\ last_outcome' = outcome
                      /\ errors' = IF e.some
                                   THEN Append(errors,
                                               << <<"Default DVM">>, e.val.msg >>)
                                   ELSE errors
    /\ pc' = After("configure_default_dvm", self)
    /\ UNCHANGED <<self, call, nlines, i, exc, process, template_packages>>

\* the message do_setup builds from `errors`
RECURSIVE ErrorsMessage(_)
ErrorsMessage(errs) ==
    IF errs = <<>> THEN <<>>
    ELSE Head(errs)[1] \o <<" failed:\n">> \o Head(errs)[2] \o <<"\n\n">>
         \o ErrorsMessage(Tail(errs))

\* do_setup: if errors: raise Exception(msg)
report_errors ==
    /\ pc = "report_errors"
    /\ IF errors # <<>>
       THEN Abort(Exception("Exception", ErrorsMessage(errors)))
       ELSE pc' = After("report_errors", self) /\ UNCHANGED <<i, exc>>
    /\ UNCHANGED <<self, call, nlines, trace, last_outcome, errors, stage,
                   process, template_packages>>

\* ------------------------------------------ the pipeline's runs
\* The record handed to execute(): the constructed record in which at most
\* MaxChanged boolean options, default_template and templates_to_install
\* were set (by handle_line) before the pipeline runs.
MaxChanged == 3

DefaultTemplates == {None, Some(s_fedora), Some(s_whonix)}

TemplateLists ==
    { <<s_fedora, s_debian, s_whonix_gw, s_whonix_ws>>,
      <<s_fedora>>, <<s_debian, s_fedora>>,
      <<s_fedora, s_whonix \o <<"-", "x">>, s_debian>> }

Flip(obj, changed) ==
    [f \in DOMAIN obj |-> IF f \in changed THEN ~obj[f] ELSE obj[f]]

Init ==
    /\ \E env \in Environments, dt \in DefaultTemplates, tti \in TemplateLists,
          changed \in {c \in SUBSET BoolOptionSet : Cardinality(c) <= MaxChanged} :
         /\ self = [Flip(QubesData(AddonName, env.dir, env.usbvm_available,
                                   env.tpool), changed)
                      EXCEPT !.default_template = dt,
                             !.templates_to_install = tti,
                             !.seen = TRUE]
         /\ template_packages = env.dir
    /\ call = NoCall
    /\ nlines = 0
    /\ pc = "idle"
    /\ i = 0
    /\ trace = <<>>
    /\ last_outcome = "none"
    /\ errors = <<>>
    /\ exc = None
    /\ stage = <<>>
    /\ process = InstallerProcess

Next ==
    \/ Execute
    \/ DoSetup
    \/ DropPrivileges
    \/ configure_default_kernel
    \/ configure_default_pool
    \/ install_templates
    \/ configure_dom0
    \/ configure_default_template
    \/ configure_qubes
    \/ configure_network
    \/ start_usbvm
    \/ configure_default_dvm
    \/ report_errors

Spec == Init /\ [][Next]_vars

\* ------------------------------------------------- get_default_tpool
\* str.split(c, maxsplit) and str.rsplit(c, maxsplit) for a one-character
\* separator c
SplitMax(s, c, maxsplit) ==
    LET n == Cardinality({k \in 1..Len(s) : s[k] = c})
        cuts == IF n < maxsplit THEN n ELSE maxsplit
        Start(m) == IF m = 1 THEN 1 ELSE Find(s, c, m - 1) + 1
        End(m) == IF m = cuts + 1 THEN Len(s) ELSE Find(s, c, m) - 1
    IN  [m \in 1..(cuts + 1) |-> SubSeq(s, Start(m), End(m))]

RSplit(s, c, maxsplit) ==
    LET n == Cardinality({k \in 1..Len(s) : s[k] = c})
        cuts == IF n < maxsplit THEN n ELSE maxsplit
        Start(m) == IF m = 1 THEN 1 ELSE Find(s, c, n - cuts + m - 1) + 1
        End(m) == IF m = cuts + 1 THEN Len(s) ELSE Find(s, c, n - cuts + m) - 1
    IN  [m \in 1..(cuts + 1) |-> SubSeq(s, Start(m), End(m))]

\* str.replace(old, new) for a non-empty old: occurrences are taken from the
\* left and do not overlap
RECURSIVE Replace(_, _, _)
Replace(s, old, new) ==
    IF s = <<>> THEN <<>>
    ELSE IF Startswith(s, old)
    THEN new \o Replace(From(s, Len(old) + 1), old, new)
    ELSE <<Head(s)>> \o Replace(Tail(s), old, new)

\* str.endswith(suffix)
Endswith(s, suffix) ==
    /\ Len(s) >= Len(suffix)
    /\ SubSeq(s, Len(s) - Len(suffix) + 1, Len(s)) = suffix

\* str.rstrip('\n')
RstripNewline(s) ==
    IF \A k \in 1..Len(s) : s[k] = "\n" THEN <<>>
    ELSE SubSeq(s, 1, CHOOSE k \in 1..Len(s) :
                         /\ s[k] # "\n"
                         /\ \A j \in (k + 1)..Len(s) : s[j] = "\n")

s_tpool == <<"-","t","p","o","o","l">>
s_root_pool == <<"r","o","o","t","-","p","o","o","l">>
s_thin == <<"t","h","i","n">>
s_linear == <<"l","i","n","e","a","r">>

\* The outcome of get_default_tpool: it returns value (None or a pair) or
\* raises error.
TpoolReturn(value) == [raised |-> FALSE, error |-> <<>>, value |-> value]
TpoolRaise(error) == [raised |-> TRUE, error |-> error, value |-> None]

\* the names split with no regard to doubled hyphens
parse_devname_no_unescape(lower_devname) ==
    IF Endswith(lower_devname, s_tpool)
    THEN LET parts == RSplit(lower_devname, "-", 2)
         IN  IF Len(parts) # 3
             THEN [ok |-> FALSE, volume_group |-> <<>>, thin_pool |-> None]
             ELSE [ok |-> TRUE, volume_group |-> parts[1],
                   thin_pool |-> Some(parts[2])]
    ELSE LET parts == RSplit(lower_devname, "-", 1)
         IN  IF Len(parts) # 2
             THEN [ok |-> FALSE, volume_group |-> <<>>, thin_pool |-> None]
             ELSE [ok |-> TRUE, volume_group |-> parts[1], thin_pool |-> None]

\* get_default_tpool, the name parsing: the volume group and the thin pool
\* (None for a device that is no pool) named by a device-mapper name;
\* ok is FALSE where the tuple assignment raises ValueError
parse_devname(lower_devname) ==
    IF Endswith(lower_devname, s_tpool)
    THEN LET parts == RSplit(Replace(lower_devname, <<"-","-">>, <<"=">>),
                             "-", 2)
         IN  IF Len(parts) # 3
             THEN [ok |-> FALSE, volume_group |-> <<>>, thin_pool |-> None]
             ELSE [ok |-> TRUE,
                   volume_group |-> Replace(parts[1], <<"=">>, <<"-">>),
                   thin_pool |-> Some(Replace(parts[2], <<"=">>, <<"-">>))]
    ELSE LET parts == RSplit(Replace(lower_devname, <<"-","-">>, <<"=">>),
                             "-", 1)
         IN  IF Len(parts) # 2
             THEN [ok |-> FALSE, volume_group |-> <<>>, thin_pool |-> None]
             ELSE [ok |-> TRUE,
                   volume_group |-> Replace(parts[1], <<"=">>, <<"-">>),
                   thin_pool |-> None]

\* "root-pool" taken as the pool to use
searches_vm_pool_only_unset(thin_pool) == thin_pool = None

\* get_default_tpool: thin_pool in (None, "root-pool")
searches_vm_pool(thin_pool) == thin_pool \in {None, Some(s_root_pool)}

\* QubesData.get_default_tpool on a machine m:
\*   m.st_dev          os.stat("/").st_dev
\*   m.dm_tables       output of `dmsetup -j <major> -m <minor> table`, by
\*                     <<major, minor>>; dmsetup exits non-zero for a device
\*                     that has no table
\*   m.sysfs           /sys/dev/block/<devnum>/dm/name, by devnum
\*   m.vm_pool_groups  the volume groups in which `lvs <group>/vm-pool`
\*                     exits zero
\* (m.lvm names the LVM objects below the root device; the function does
\* not look at it)
get_default_tpool(m) ==
    LET fs_major == (m.st_dev \div 256) % 256
        fs_minor == m.st_dev % 256
    IN
    IF <<fs_major, fs_minor>> \notin DOMAIN m.dm_tables THEN TpoolReturn(None)
    ELSE
    LET root_table == m.dm_tables[<<fs_major, fs_minor>>]
        fields == SplitMax(root_table, " ", 3)
    IN  IF Len(fields) # 4
        THEN TpoolRaise(<<"ValueError">>)
        ELSE
        LET target_type == fields[3]
            target_args == fields[4]
        IN  IF target_type \notin {s_thin, s_linear}
            THEN TpoolReturn(None)
            ELSE
            LET args == Split(target_args, " ")
            IN  IF Len(args) # 2
                THEN TpoolRaise(<<"ValueError">>)
                ELSE
                LET lower_devnum == args[1]
                IN  IF lower_devnum \notin DOMAIN m.sysfs
                    THEN TpoolRaise(<<"FileNotFoundError">>)
                    ELSE
                    LET lower_devname == RstripNewline(m.sysfs[lower_devnum])
                        parsed == parse_devname(lower_devname)
                        volume_group == parsed.volume_group
                    IN  IF ~parsed.ok
                        THEN TpoolRaise(<<"ValueError">>)
                        ELSE IF searches_vm_pool(parsed.thin_pool)
                        THEN IF volume_group \notin m.vm_pool_groups
                             THEN TpoolReturn(None)
                             ELSE IF volume_group # <<>>
                             THEN TpoolReturn(Some(<<volume_group, s_vm_pool>>))
                             ELSE TpoolReturn(None)
                        ELSE IF volume_group # <<>> /\ parsed.thin_pool.val # <<>>
                        THEN TpoolReturn(Some(<<volume_group,
                                                parsed.thin_pool.val>>))
                        ELSE TpoolReturn(None)

\* ------------------------------------- the machines get_default_tpool sees
\* LVM names: letters and hyphens, no hyphen in front, up to MaxNameLen long
MaxNameLen == 3

NameChars == {"a", "b", "-"}

Names ==
    { n \in UNION { [1..len -> NameChars] : len \in 1..MaxNameLen } :
        n[1] # "-" }

\* the device-mapper name of an LVM object: every hyphen is doubled
RECURSIVE Esc(_)
Esc(name) ==
    IF name = <<>> THEN <<>>
    ELSE (IF Head(name) = "-" THEN <<"-", "-">> ELSE <<Head(name)>>)
         \o Esc(Tail(name))

DmName(group, volume) == Esc(group) \o <<"-">> \o Esc(volume)

\* st_dev of device 253:0 and the devnum of the device below it
ROOT_ST_DEV == 64768
s_lower_devnum == <<"2","5","3",":","3">>

\* first line of a device-mapper table
Table(target_type, target_args) ==
    <<"0", " ", "4", "0", "9", "6", " ">> \o target_type \o <<" ">>
        \o target_args \o <<"\n">>

ThinTable == Table(s_thin, s_lower_devnum \o <<" ", "1">>)
LinearTable == Table(s_linear, s_lower_devnum \o <<" ", "2", "0", "4", "8">>)
StripedTable ==
    Table(<<"s","t","r","i","p","e","d">>,
          <<"2"," ","1","2","8"," ","8",":","1"," ","0"," ","8",":","2"," ","0">>)

Dict1(key, value) == [k \in {key} |-> value]

\* the root filesystem on a thin volume of pool `pool` in group `group`
ThinMachines ==
    { [lvm |-> Some([group |-> group, pool |-> Some(pool)]),
       st_dev |-> ROOT_ST_DEV,
       dm_tables |-> Dict1(<<253, 0>>, ThinTable),
       sysfs |-> Dict1(s_lower_devnum,
                       DmName(group, pool) \o s_tpool \o <<"\n">>),
       vm_pool_groups |-> IF has_vm_pool THEN {group} ELSE {}] :
        group \in Names \cup {s_qubes_dom0},
        pool \in Names \cup {s_root_pool, s_vm_pool},
        has_vm_pool \in BOOLEAN }

\* the root filesystem mapped linearly onto a logical volume of `group`
LinearMachines ==
    { [lvm |-> Some([group |-> group, pool |-> None]),
       st_dev |-> ROOT_ST_DEV,
       dm_tables |-> Dict1(<<253, 0>>, LinearTable),
       sysfs |-> Dict1(s_lower_devnum, DmName(group, volume) \o <<"\n">>),
       vm_pool_groups |-> IF has_vm_pool THEN {group} ELSE {}] :
        group \in {s_qubes_dom0, <<"a","-","b">>},
        volume \in {<<"r","o","o","t">>, s_root_pool},
        has_vm_pool \in BOOLEAN }

\* no device-mapper root, a striped root, a lower device that is no
\* device-mapper device, device-mapper names that are not LVM's: one with a
\* single part before -tpool and one with nothing in front of the first hyphen
OtherMachines ==
    { [lvm |-> None, st_dev |-> 2050, dm_tables |-> Dict1(<<253, 0>>, ThinTable),
       sysfs |-> EmptyDict, vm_pool_groups |-> {}],
      [lvm |-> None, st_dev |-> ROOT_ST_DEV, dm_tables |-> Dict1(<<253, 0>>, StripedTable),
       sysfs |-> EmptyDict, vm_pool_groups |-> {s_qubes_dom0}],
      [lvm |-> None, st_dev |-> ROOT_ST_DEV, dm_tables |-> Dict1(<<253, 0>>, LinearTable),
       sysfs |-> EmptyDict, vm_pool_groups |-> {s_qubes_dom0}],
      [lvm |-> None, st_dev |-> ROOT_ST_DEV, dm_tables |-> Dict1(<<253, 0>>, ThinTable),
       sysfs |-> Dict1(s_lower_devnum, <<"x">> \o s_tpool \o <<"\n">>),
       vm_pool_groups |-> {}],
      [lvm |-> None, st_dev |-> ROOT_ST_DEV, dm_tables |-> Dict1(<<253, 0>>, ThinTable),
       sysfs |-> Dict1(s_lower_devnum, <<"-", "a">> \o s_tpool \o <<"\n">>),
       vm_pool_groups |-> {}] }

Machines == ThinMachines \cup LinearMachines \cup OtherMachines

\* __init__: self.vg_tpool = self.get_default_tpool()
GetDefaultTpool ==
    /\ call.op = "none"
    /\ \E m \in Machines :
         LET r == get_default_tpool(m)
         IN  /\ call' = [op |-> "get_default_tpool", arg |-> m,
                         raised |-> r.raised,
                         value |-> IF r.raised THEN r.error ELSE r.value]
             /\ self' = IF r.raised THEN self
                        ELSE [self EXCEPT !.vg_tpool = r.value]
    /\ UNCHANGED nlines
    /\ UNCHANGED pipeline_vars

NextTpool == GetDefaultTpool

SpecTpool == InitParse /\ [][NextTpool]_vars

\* ================================================================ claims
Last(seq) == seq[Len(seq)]

\* sub occurs in s as a run of consecutive pieces
Contains(s, sub) ==
    \E k \in 1..(Len(s) - Len(sub) + 1) : SubSeq(s, k, k + Len(sub) - 1) = sub

IsCommand(c, words) == Startswith(c, Lit(words))

IsRpm(c) == IsCommand(c, <<"/usr/bin/rpm", "-i">>)
IsDvm(c) == IsCommand(c, <<"/usr/bin/qubes-prefs", "default-dispvm">>)
IsDisable(c) == IsCommand(c, <<"qubesctl", "top.disable">>)
IsEnable(c) == IsCommand(c, <<"qubesctl", "top.enable">>)
IsServiceDisable(c) ==
    IsCommand(c, <<"systemctl", "disable">>) \/ IsCommand(c, <<"systemctl", "stop">>)

\* c installs the package file of `template` from the staging directory
IsRpmOf(c, template) ==
    /\ IsRpm(c)
    /\ Len(c) = 3
    /\ Startswith(c[3], TEMPLATES_RPM_PATH \o <<"qubes-template-">> \o template
                           \o <<"-">>)

Failed == last_outcome \in {"nonzero", "exception"}

DvmStage == <<"Creating default DisposableVM">>

\* the default-DVM step has run and failed / has run and succeeded
DvmFailed ==
    /\ stage = DvmStage
    /\ \/ ~self.default_template.some
       \/ trace # <<>> /\ IsDvm(Last(trace)) /\ Failed

DvmSucceeded ==
    /\ stage = DvmStage
    /\ trace # <<>> /\ IsDvm(Last(trace)) /\ last_outcome = "ok"

\* the text of the error the default-DVM step ended with
DvmErrorText ==
    IF ~self.default_template.some
    THEN <<"unsupported operand type(s) for +: 'NoneType' and 'str'">>
    ELSE run_command(Last(trace), FALSE, last_outcome).val.msg

\* every step before the default-DVM step has issued all of its commands,
\* the privileges are dropped and the staging directory is removed
EarlierStepsComplete ==
    LET before == KernelCommands \o PoolCommands(self)
        n == Len(self.templates_to_install)
        after == Dom0Commands
                 \o (IF self.default_template.some
                     THEN DefaultTemplateCommands(self.default_template.val)
                     ELSE <<>>)
                 \o QubesSetupCommands(self) \o QubesTryCommands(self)
                 \o (IF self.system_vms THEN NetworkCommands(self) ELSE <<>>)
                 \o (IF self.usbvm /\ ~self.usbvm_with_netvm
                     THEN UsbvmCommands ELSE <<>>)
        m == Len(before) + n + Len(after)
    IN  /\ process = [gid |-> QUBES_GID, umask |-> SETUP_UMASK]
        /\ ~template_packages.some
        /\ Len(trace) >= m
        /\ SubSeq(trace, 1, Len(before)) = before
        /\ \A k \in 1..n :
             IsRpmOf(trace[Len(before) + k], self.templates_to_install[k])
        /\ SubSeq(trace, Len(before) + n + 1, m) = after
        /\ \A k \in (m + 1)..Len(trace) : IsDvm(trace[k])

\* C1: a failure of the default-DVM step is not raised where it happens:
\* all earlier steps have run to completion and do_setup ends by raising one
\* error whose message names the 'Default DVM' stage and contains the text of
\* the DVM error; if the default-DVM step succeeds, do_setup raises nothing.
C1_DvmFailureDeferred ==
    /\ DvmFailed =>
         /\ EarlierStepsComplete
         /\ pc \in {"report_errors", "raised"}
         /\ pc = "report_errors" => ~exc.some
         /\ pc = "raised" =>
              /\ exc.some
              /\ Len(errors) = 1
              /\ Contains(exc.val.msg, <<"Default DVM", " failed:\n">>)
              /\ Contains(exc.val.msg, DvmErrorText)
    /\ DvmSucceeded =>
         /\ EarlierStepsComplete
         /\ pc \in {"report_errors", "done"}
         /\ ~exc.some

C1_Witness ==
    /\ DvmFailed
    /\ pc = "raised"
    /\ self.default_template.some
    /\ self.system_vms
    /\ last_outcome = "nonzero"

\* C2: if `qubesctl --all state.highstate` fails, configure_qubes raises an
\* error carrying the operator guidance (the log /var/log/salt/minion, the retry
\* command sudo qubesctl --all state.highstate) and no top.disable command has
\* been issued.
C2_HighstateFailure ==
    (trace # <<>> /\ Last(trace) = HighstateCommand /\ Failed) =>
        /\ pc = "raised"
        /\ exc.some
        /\ Contains(exc.val.msg, <<"/var/log/salt/minion">>)
        /\ Contains(exc.val.msg, <<"sudo qubesctl --all state.highstate">>)
        /\ \A k \in 1..Len(trace) : ~IsDisable(trace[k])

C2_Witness ==
    /\ trace # <<>> /\ Last(trace) = HighstateCommand /\ Failed
    /\ \E k \in 1..Len(trace) : trace[k] = EnableCommand(<<"qvm.sys-net">>)
    /\ pc = "raised"

C4_Order ==
    <<"do_setup", "drop_privileges", "configure_default_kernel",
      "configure_default_pool", "install_templates", "configure_dom0",
      "configure_default_template", "configure_qubes", "configure_network",
      "start_usbvm", "configure_default_dvm", "report_errors">>

C4_Rank(p) ==
    IF \E k \in 1..Len(C4_Order) : C4_Order[k] = p
    THEN CHOOSE k \in 1..Len(C4_Order) : C4_Order[k] = p
    ELSE 0

C4_Optional == {"configure_network", "start_usbvm"}

\* C4: the steps of a non-skipped run start in the fixed order privilege drop,
\* default kernel, default pool, template install, service disable, default
\* template, configuration states, network, USB-VM start, default DVM; a step
\* starts when the one before it has finished and no step starts twice.
C4_FixedOrder ==
    [][ (pc' # pc /\ pc # "idle") =>
          \/ pc' = "raised"
          \/ pc' = "done" /\ pc \in {"do_setup", "report_errors"}
          \/ /\ C4_Rank(pc') > C4_Rank(pc)
             /\ C4_Rank(pc) > 0
             /\ \A k \in (C4_Rank(pc) + 1)..(C4_Rank(pc') - 1) :
                  C4_Order[k] \in C4_Optional ]_vars

C4_Witness ==
    /\ pc = "done"
    /\ ~self.skip
    /\ \E k \in 1..Len(trace) : trace[k] = NetworkCommands(self)[5]
    /\ \E k \in 1..Len(trace) : trace[k] = UsbvmCommands[1]
    /\ IsDvm(Last(trace))

\* C5: with skip set and a member in the group qubes, do_setup returns right
\* after choosing the qubes user: no command is issued, group id and umask are
\* unchanged, no step runs and nothing is raised.
C5_SkipStops ==
    (self.skip /\ pc \notin {"idle", "do_setup"} /\ self.qubes_user.some) =>
        /\ pc = "done"
        /\ ~exc.some
        /\ trace = <<>>
        /\ process = InstallerProcess
        /\ stage = <<>>
        /\ template_packages.some
        /\ last_outcome = "none"

C5_Witness ==
    /\ self.skip
    /\ pc = "done"
    /\ self.qubes_user = Some(<<"user">>)
    /\ self.system_vms /\ self.default_template.some

\* C6: a handle_line call on a line with an unrecognized key, a bad boolean
\* value, a bad lvm_pool value or no value part raises a validation error, and
\* a call that raises leaves `seen` and every field of the record as it was.
C6_FailedLineLeavesRecord ==
    [][ (call'.op = "handle_line" /\ nlines' = nlines + 1) =>
          /\ call'.arg \in BadLines =>
                (call'.raised /\ call'.value[1] = "KickstartValueError")
          /\ call'.raised => self' = self ]_vars

C6_Witness ==
    /\ call.op = "handle_line"
    /\ call.raised
    /\ call.arg \in BadBoolLines
    /\ nlines = 2
    /\ self.seen /\ self.skip

\* C7: for every boolean key and every spelling of true / false in any letter
\* case, handle_line sets that option to True / False, sets seen and changes
\* nothing else; any other value for a boolean key is rejected.
C7_BoolOptions ==
    [][ (call'.op = "handle_line" /\ nlines' = nlines + 1) =>
          \A o \in BoolOptionSet :
            Startswith(call'.arg, Spell[o] \o <<" ">>) =>
              \A v \in TrueSpellings \cup FalseSpellings \cup NotBoolValues :
                call'.arg = KeyValue(Spell[o], v) =>
                  IF v \in TrueSpellings
                  THEN /\ ~call'.raised
                       /\ self' = [[self EXCEPT ![o] = TRUE] EXCEPT !.seen = TRUE]
                  ELSE IF v \in FalseSpellings
                  THEN /\ ~call'.raised
                       /\ self' = [[self EXCEPT ![o] = FALSE] EXCEPT !.seen = TRUE]
                  ELSE call'.raised /\ self' = self ]_vars

C7_Witness ==
    /\ call.op = "handle_line"
    /\ call.arg = KeyValue(Spell.usbvm_with_netvm, <<"T","R","U","E">>)
    /\ ~call.raised
    /\ self.usbvm_with_netvm /\ self.seen

\* C8: handle_line with key lvm_pool succeeds exactly on a value
\* <group>/<pool> with one slash, setting vg_tpool to (group, pool); a value
\* with no slash or with more than one slash raises and leaves vg_tpool as it
\* was.
C8_LvmPool ==
    [][ (call'.op = "handle_line" /\ nlines' = nlines + 1) =>
          /\ \A g \in LvmGroups, p \in LvmPools :
               call'.arg = KeyValue(Spell.lvm_pool, g \o <<"/">> \o p) =>
                 (~call'.raised /\ self'.vg_tpool = Some(<<g, p>>))
          /\ \A v \in BadLvmValues :
               call'.arg = KeyValue(Spell.lvm_pool, v) =>
                 (call'.raised /\ self'.vg_tpool = self.vg_tpool) ]_vars

C8_Witness ==
    /\ call.op = "handle_line"
    /\ call.arg = KeyValue(Spell.lvm_pool, s_foo \o <<"/">> \o s_bar)
    /\ self.vg_tpool = Some(<<s_foo, s_bar>>)

\* the option lines of a section: all lines between the %addon header and
\* the %end footer, each with its line end
OptionLines(section) ==
    LET parts == Split(section, "\n")
    IN  [k \in 1..(Len(parts) - 3) |-> parts[k + 1] \o <<"\n">>]

\* handle_line applied to the lines in turn, stopping at the first that raises
RECURSIVE Reparse(_, _)
Reparse(obj, lines) ==
    IF lines = <<>> THEN Return(obj)
    ELSE LET r == handle_line(obj, Head(lines))
         IN  IF r.raised THEN r ELSE Reparse(r.self, Tail(lines))

SerializedFields ==
    BoolOptionSet \cup {"default_template", "templates_to_install", "vg_tpool"}

\* C9: serializing the record with __str__ and re-parsing every emitted option
\* line with handle_line succeeds on each line and yields the same nine
\* booleans, default_template, templates_to_install and vg_tpool.
C9_RoundTrip ==
    call.op = "__str__" =>
        LET r == Reparse(self, OptionLines(call.value))
        IN  /\ ~r.raised
            /\ \A f \in SerializedFields : r.self[f] = self[f]

RpmCommands == SelectSeq(trace, IsRpm)

AllVersionsKnown ==
    \A k \in 1..Len(self.templates_to_install) :
        (IF Startswith(self.templates_to_install[k], s_whonix)
         THEN s_whonix ELSE self.templates_to_install[k])
            \in DOMAIN self.templates_versions

\* C10: when every entry of templates_to_install has a version, the install
\* step issues rpm -i <package path> once per entry in list order and then
\* removes the staging directory; if an rpm -i fails the staging directory is
\* kept and no further template is installed.
C10_InstallTemplates ==
    AllVersionsKnown =>
        /\ Len(RpmCommands) <= Len(self.templates_to_install)
        /\ ~template_packages.some =>
             /\ Len(RpmCommands) = Len(self.templates_to_install)
             /\ \A k \in 1..Len(RpmCommands) :
                  IsRpmOf(RpmCommands[k], self.templates_to_install[k])
        /\ (trace # <<>> /\ IsRpm(Last(trace)) /\ Failed) =>
             /\ template_packages.some
             /\ pc = "raised"
             /\ \A k \in 1..(Len(RpmCommands) - 1) :
                  IsRpmOf(RpmCommands[k], self.templates_to_install[k])

C10_Witness ==
    /\ AllVersionsKnown
    /\ ~template_packages.some
    /\ Len(self.templates_to_install) = 4
    /\ Len(RpmCommands) = 4
    /\ pc = "done"

\* the eight commands of the service-disable step (a unit name is the
\* service name followed by ".service")
C11_Commands ==
    << <<<<"systemctl">>, <<"disable">>, <<"rdisc", ".service">>>>,
       <<<<"systemctl">>, <<"stop">>, <<"rdisc", ".service">>>>,
       <<<<"systemctl">>, <<"disable">>, <<"kdump", ".service">>>>,
       <<<<"systemctl">>, <<"stop">>, <<"kdump", ".service">>>>,
       <<<<"systemctl">>, <<"disable">>, <<"libvirt-guests", ".service">>>>,
       <<<<"systemctl">>, <<"stop">>, <<"libvirt-guests", ".service">>>>,
       <<<<"systemctl">>, <<"disable">>, <<"salt-minion", ".service">>>>,
       <<<<"systemctl">>, <<"stop">>, <<"salt-minion", ".service">>>> >>

ServiceCommands == SelectSeq(trace, IsServiceDisable)

\* C11: the service-disable step issues systemctl disable then systemctl stop
\* for rdisc, kdump, libvirt-guests and salt-minion, in that order; a non-zero
\* exit status of one of them stops neither the rest of the step nor the
\* pipeline, which goes on to the default-template step when the eighth
\* command has ended.
C11_ServiceDisable ==
    /\ [](/\ Len(ServiceCommands) <= Len(C11_Commands)
          /\ \A k \in 1..Len(ServiceCommands) :
                ServiceCommands[k] = C11_Commands[k]
          /\ C4_Rank(pc) > C4_Rank("configure_dom0") =>
                Len(ServiceCommands) = Len(C11_Commands))
    /\ [][( /\ pc = "configure_dom0"
            /\ last_outcome' \in {"ok", "nonzero"} )
          => /\ ServiceCommands' = Append(ServiceCommands, Last(trace'))
             /\ pc' = IF Len(ServiceCommands') = Len(C11_Commands)
                      THEN "configure_default_template"
                      ELSE "configure_dom0"
             /\ exc' = exc ]_vars

C11_Witness ==
    /\ pc = "configure_default_template"
    /\ Len(ServiceCommands) = 8
    /\ last_outcome = "nonzero"
    /\ Last(trace) = C11_Commands[8]

\* C12: the pipeline only reads the record: no step of do_setup changes one
\* of the nine boolean options, default_template, templates_to_install or
\* vg_tpool, so they have the same values when do_setup ends as when it began.
C12_RecordOnlyRead ==
    [][\A f \in SerializedFields : self'[f] = self[f]]_vars

\* the device-mapper name that get_default_tpool read
LowerDevname == RstripNewline(call.arg.sysfs[s_lower_devnum])

\* C13: for every group name and pool name, hyphens included, the name
\* parsing of get_default_tpool applied to '<esc(group)>-<esc(pool)>-tpool'
\* (esc doubles every hyphen) gives back exactly (group, pool), and that pair
\* is what get_default_tpool returns unless the pool is 'root-pool'.
C13_NameRoundTrip ==
    ( /\ call.op = "get_default_tpool"
      /\ call.arg.lvm.some
      /\ call.arg.lvm.val.pool.some ) =>
        LET group == call.arg.lvm.val.group
            pool == call.arg.lvm.val.pool.val
        IN  LowerDevname = Esc(group) \o <<"-">> \o Esc(pool) \o s_tpool =>
              /\ parse_devname(LowerDevname).ok
              /\ parse_devname(LowerDevname).volume_group = group
              /\ parse_devname(LowerDevname).thin_pool = Some(pool)
              /\ pool # s_root_pool =>
                    (~call.raised /\ call.value = Some(<<group, pool>>))

C13_Witness ==
    /\ call.op = "get_default_tpool"
    /\ call.arg.lvm = Some([group |-> <<"a","-","b">>,
                            pool |-> Some(<<"b","-","-">>)])
    /\ LowerDevname = <<"a","-","-","b","-","b","-","-","-","-">> \o s_tpool
    /\ call.value = Some(<< <<"a","-","b">>, <<"b","-","-">> >>)

\* dmsetup has no table for the device of the root filesystem
DmsetupFails(m) ==
    <<(m.st_dev \div 256) % 256, m.st_dev % 256>> \notin DOMAIN m.dm_tables

\* the pool below the root device is unset or is 'root-pool'
PoolUnsetOrRoot(m) ==
    /\ m.lvm.some
    /\ m.lvm.val.pool \in {None, Some(s_root_pool)}

\* C14: get_default_tpool returns none when the device-mapper query fails,
\* when the root table's target type is neither thin nor linear, and when the
\* pool is unset or 'root-pool' and the group has no 'vm-pool'; when the pool
\* is unset or 'root-pool' and 'vm-pool' exists it returns (group, 'vm-pool');
\* a returned pair has a non-empty group and a non-empty pool.
C14_DefaultTpool ==
    call.op = "get_default_tpool" =>
        LET m == call.arg
        IN  /\ DmsetupFails(m) => (~call.raised /\ call.value = None)
            /\ (~DmsetupFails(m) /\ m.dm_tables[<<253, 0>>] = StripedTable) =>
                  (~call.raised /\ call.value = None)
            /\ (~DmsetupFails(m) /\ PoolUnsetOrRoot(m)) =>
                  /\ ~call.raised
                  /\ call.value =
                       IF m.lvm.val.group \in m.vm_pool_groups
                       THEN Some(<<m.lvm.val.group, s_vm_pool>>)
                       ELSE None
            /\ (~call.raised /\ call.value # None) =>
                  /\ call.value.some
                  /\ call.value.val[1] # <<>>
                  /\ call.value.val[2] # <<>>
            /\ ~call.raised => self.vg_tpool = call.value

C14_Witness ==
    /\ call.op = "get_default_tpool"
    /\ call.arg.lvm = Some([group |-> s_qubes_dom0, pool |-> Some(s_root_pool)])
    /\ call.value = Some(<<s_qubes_dom0, s_vm_pool>>)
    /\ self.vg_tpool = Some(<<s_qubes_dom0, s_vm_pool>>)

\* positions of the convergence pass in the trace
HighstatePositions == {k \in 1..Len(trace) : trace[k] = HighstateCommand}

\* the command the claim names for enabling / disabling a state
C15_Enable(state) ==
    IF state[1] = "pillar."
    THEN <<<<"qubesctl">>, <<"top.enable">>, Tail(state), <<"pillar=True">>>>
    ELSE <<<<"qubesctl">>, <<"top.enable">>, state>>

C15_Disables(state) ==
    {k \in 1..Len(trace) :
        /\ IsDisable(trace[k])
        /\ trace[k][3] \in {state, Tail(state)}}

\* configure_qubes has returned
QubesFinished ==
    \/ C4_Rank(pc) > C4_Rank("configure_qubes")
    \/ pc = "done" /\ ~self.skip

\* C15: every selected state is enabled before the convergence pass, a pillar
\* state by top.enable <name without prefix> pillar=True and a regular state
\* by top.enable <state>; when configure_qubes has finished without error,
\* top.disable has been issued exactly once, after the convergence pass, for
\* every regular state and for no pillar state.
C15_EnableDisable ==
    /\ \A h \in HighstatePositions :
          /\ SelectSeq(SubSeq(trace, 1, h), IsEnable)
                = [k \in 1..Len(states(self)) |-> C15_Enable(states(self)[k])]
          /\ \A k \in 1..Len(trace) : IsEnable(trace[k]) => k < h
          /\ \A k \in 1..Len(trace) : IsDisable(trace[k]) => k > h
    /\ (\E k \in 1..Len(trace) : IsDisable(trace[k])) => HighstatePositions # {}
    /\ QubesFinished =>
          /\ Cardinality(HighstatePositions) = 1
          /\ \A k \in 1..Len(states(self)) :
                Cardinality(C15_Disables(states(self)[k]))
                  = IF states(self)[k][1] = "pillar." THEN 0 ELSE 1
          /\ Len(SelectSeq(trace, IsDisable))
                = Len(SelectSeq(states(self), LAMBDA st : st[1] # "pillar."))

C15_Witness ==
    /\ QubesFinished
    /\ self.disp_netvm /\ self.usbvm_with_netvm /\ self.default_vms
    /\ \E k \in 1..Len(trace) :
          trace[k] = <<<<"qubesctl">>, <<"top.enable">>,
                       <<"qvm.sys-net-as-usbvm">>, <<"pillar=True">>>>
    /\ \E k \in 1..Len(trace) :
          trace[k] = <<<<"qubesctl">>, <<"top.disable">>, <<"qvm.vault">>>>

\* the five commands of the network step, X the update VM
C16_Commands(X) ==
    << Lit(<<"/usr/bin/qvm-prefs", "sys-firewall", "netvm", "sys-net">>),
       Lit(<<"/usr/bin/qubes-prefs", "default-netvm", "sys-firewall">>),
       Lit(<<"/usr/bin/qubes-prefs", "updatevm", X>>),
       Lit(<<"/usr/bin/qubes-prefs", "clockvm", "sys-net">>),
       Lit(<<"/usr/bin/qvm-start", "sys-firewall">>) >>

C16_AllCommands ==
    { C16_Commands(X)[k] : X \in {"sys-whonix", "sys-firewall"}, k \in 1..5 }

IsNetworkCommand(c) == c \in C16_AllCommands

NetworkTrace == SelectSeq(trace, IsNetworkCommand)

NetworkPositions == {k \in 1..Len(trace) : IsNetworkCommand(trace[k])}

\* do_setup is past the network step of a run that was not skipped
NetworkPassed ==
    \/ C4_Rank(pc) > C4_Rank("configure_network")
    \/ pc = "done" /\ ~self.skip

\* C16: the network step runs exactly when system_vms is set and the earlier
\* steps succeeded, and issues qvm-prefs sys-firewall netvm sys-net,
\* qubes-prefs default-netvm sys-firewall, qubes-prefs updatevm X, qubes-prefs
\* clockvm sys-net, qvm-start sys-firewall in this order, X being sys-whonix
\* if whonix_default is set and sys-firewall otherwise; with system_vms unset
\* none of them is issued.
C16_Network ==
    LET expected == C16_Commands(IF self.whonix_default
                                 THEN "sys-whonix" ELSE "sys-firewall")
    IN  /\ Len(NetworkTrace) <= Len(expected)
        /\ NetworkTrace = SubSeq(expected, 1, Len(NetworkTrace))
        /\ ~self.system_vms => NetworkTrace = <<>>
        /\ pc = "configure_network" => self.system_vms
        /\ (NetworkPassed /\ self.system_vms) => NetworkTrace = expected
        /\ NetworkTrace # <<>> =>
              /\ QubesFinished \/ pc = "raised"
              /\ HighstatePositions # {}
              /\ \A k \in NetworkPositions, h \in 1..Len(trace) :
                    (IsDisable(trace[h]) \/ trace[h] = HighstateCommand)
                      => h < k

C16_Witness ==
    /\ NetworkPassed
    /\ self.system_vms /\ self.whonix_default
    /\ NetworkTrace = C16_Commands("sys-whonix")

\* positions of the USB-VM service start in the trace
C17_Command == Lit(<<"systemctl", "start", "qubes-vm@sys-usb.service">>)

UsbStarts == {k \in 1..Len(trace) : trace[k] = C17_Command}

\* do_setup is past the USB-VM start of a run that was not skipped
UsbPassed ==
    \/ C4_Rank(pc) > C4_Rank("start_usbvm")
    \/ pc = "done" /\ ~self.skip

\* C17: in a run whose earlier steps succeeded, systemctl start
\* qubes-vm@sys-usb.service is issued exactly once if usbvm is set and
\* usbvm_with_netvm is not, and never otherwise; it comes after the commands
\* of the configuration-state and network steps and before the default-DVM
\* step.
C17_UsbStart ==
    /\ Cardinality(UsbStarts) <= 1
    /\ ~(self.usbvm /\ ~self.usbvm_with_netvm) => UsbStarts = {}
    /\ (UsbPassed /\ self.usbvm /\ ~self.usbvm_with_netvm) =>
          Cardinality(UsbStarts) = 1
    /\ \A u \in UsbStarts :
          /\ HighstatePositions # {}
          /\ self.system_vms => Len(NetworkTrace) = 5
          /\ \A k \in 1..Len(trace) :
                /\ (\/ IsEnable(trace[k]) \/ IsDisable(trace[k])
                    \/ trace[k] = HighstateCommand
                    \/ IsNetworkCommand(trace[k])) => k < u
                /\ IsDvm(trace[k]) => k > u

C17_Witness ==
    /\ pc = "done"
    /\ self.usbvm /\ ~self.usbvm_with_netvm /\ self.system_vms
    /\ Cardinality(UsbStarts) = 1
    /\ IsDvm(Last(trace))

\* the key under which the install step looks up the version of an entry
C18_Key(template) == IF Startswith(template, s_whonix) THEN s_whonix ELSE template

\* the entries of templates_to_install with no version in the inventory
C18_Unknown ==
    {k \in 1..Len(self.templates_to_install) :
        C18_Key(self.templates_to_install[k]) \notin DOMAIN self.templates_versions}

\* the first of them
C18_First == CHOOSE u \in C18_Unknown : \A k \in C18_Unknown : u <= k

\* C18: an entry of templates_to_install with no version in the inventory is
\* accepted by handle_line; when the pipeline runs, the install step raises a
\* key-not-found error before invoking rpm -i for that entry, the staging
\* directory is not removed and no later step runs.
C18_UnknownTemplate ==
    C18_Unknown # {} =>
        LET line == KeyValue(Spell.templates_to_install,
                             Join(<<" ">>, self.templates_to_install))
            r == handle_line(self, line)
        IN  /\ ~r.raised
            /\ r.self.templates_to_install = self.templates_to_install
            /\ Len(RpmCommands) <= C18_First - 1
            /\ template_packages.some
            /\ \/ C4_Rank(pc) <= C4_Rank("install_templates") /\ pc # "done"
               \/ pc = "raised"
               \/ pc = "done" /\ self.skip
            /\ Len(trace) <= Len(KernelCommands) + Len(PoolCommands(self))
                               + C18_First - 1
            /\ (pc = "raised" /\ self.qubes_user.some /\ ~Failed) =>
                  /\ exc.some
                  /\ exc.val.type = "KeyError"
                  /\ Len(RpmCommands) = C18_First - 1

C18_Witness ==
    /\ C18_Unknown # {}
    /\ C18_First = 3
    /\ pc = "raised"
    /\ exc.some /\ exc.val.type = "KeyError"
    /\ Len(RpmCommands) = 2
    /\ last_outcome = "ok"

\* do_setup has made its test of the group's members
MembersTested == pc \notin {"idle", "do_setup"}

\* C19: if the group 'qubes' has no members do_setup raises before any step
\* runs, with no command issued and group id and umask unchanged, whether or
\* not skip is set; if the group has members qubes_user is its first member.
C19_NoGroupMembers ==
    /\ (MembersTested /\ ~self.qubes_user.some) =>
          /\ pc = "raised"
          /\ exc = Exception("Exception",
                <<"You must create a user account to create default VMs.">>)
          /\ trace = <<>>
          /\ last_outcome = "none"
          /\ process = InstallerProcess
          /\ stage = <<>>
          /\ template_packages.some
    /\ (MembersTested /\ self.qubes_user.some) =>
          /\ self.qubes_user = Some(<<"user">>)
          /\ exc # Exception("Exception",
                <<"You must create a user account to create default VMs.">>)
    /\ ~MembersTested => (~self.qubes_user.some /\ ~exc.some)

C19_Witness ==
    /\ pc = "raised"
    /\ ~self.qubes_user.some
    /\ self.skip
    /\ trace = <<>>

\* the one error do_setup collects when default_template is unset
C20_Errors ==
    << << <<"Default DVM">>,
          <<"unsupported operand type(s) for +: 'NoneType' and 'str'">> >> >>

\* the message of the error do_setup raises from C20_Errors
C20_Message ==
    <<"Default DVM", " failed:\n",
      "unsupported operand type(s) for +: 'NoneType' and 'str'", "\n\n">>

\* C20: with default_template unset and skip false do_setup never finishes
\* successfully: no `qubes-prefs default-dispvm` command is ever issued, and
\* a run in which no step before the default-DVM step raised ends, after all
\* other steps have completed, by raising the aggregated error whose message
\* is 'Default DVM failed:' followed by the text of the failure.
C20_UnsetDefaultTemplate ==
    (~self.default_template.some /\ ~self.skip) =>
        /\ pc # "done"
        /\ \A k \in 1..Len(trace) : ~IsDvm(trace[k])
        /\ errors \in {<<>>, C20_Errors}
        /\ (errors = <<>>) <=> (stage # DvmStage)
        /\ pc = "report_errors" => (errors = C20_Errors /\ ~exc.some)
        /\ errors = C20_Errors =>
              /\ EarlierStepsComplete
              /\ pc \in {"report_errors", "raised"}
              /\ pc = "raised" => exc = Exception("Exception", C20_Message)
        /\ (pc = "raised" /\ self.qubes_user.some /\ ~Failed
              /\ C18_Unknown = {}) =>
              exc = Exception("Exception", C20_Message)

C20_Witness ==
    /\ ~self.default_template.some /\ ~self.skip
    /\ pc = "raised"
    /\ exc = Exception("Exception", C20_Message)
    /\ EarlierStepsComplete
    /\ Len(trace) > 20
    /\ \A k \in 1..Len(trace) : ~IsDvm(trace[k])

====
